---- MODULE Spec2Model ----
(***************************************************************************)
(* The CoAP option block codec of coap/option.py: the extended-field       *)
(* codec, the four option value codecs, the option registry, the Options   *)
(* container with its wire encode/decode, and the convenience accessors.   *)
(*                                                                         *)
(* Python values are represented as follows.                               *)
(*   str (bytes)      a sequence of integers 0..255                        *)
(*   int n            the one-element sequence <<n>>                       *)
(*   None             the sequence <<-1>> (no byte string, no unsigned)    *)
(*   BlockwiseTuple   <<num, m, szx>>, m being 1 for True and 0 for False  *)
(*                    (Python's bool is an int: True * 0x08 = 8)           *)
(*   an option        [number, kind, value], kind naming its class         *)
(*   self._options    a sequence of [key, bucket] entries, in the order    *)
(*                    the keys were inserted (the dict's internal order)   *)
(* A call that raises is a result whose status names the exception.        *)
(* Python's integers are unbounded and the model's are not: a decode that  *)
(* would build an unsigned or block value of 2^31 or more has the status   *)
(* "beyond", and the decode actions are not taken on such input.           *)
(***************************************************************************)
EXTENDS Integers, Sequences, FiniteSets, TLC

VARIABLES options, ret

vars == <<options, ret>>

None == <<-1>>

(* ---------------------------------------------------------------------- *)
(* Integers and the struct module                                          *)
(* ---------------------------------------------------------------------- *)

RECURSIVE bit_length(_)
bit_length(n) == IF n = 0 THEN 0 ELSE 1 + bit_length(n \div 2)

RECURSIVE pack(_, _)
pack(v, n) == IF n = 0 THEN <<>> ELSE Append(pack(v \div 256, n - 1), v % 256)

RECURSIVE lstrip(_)
lstrip(s) == IF s # <<>> /\ Head(s) = 0 THEN lstrip(Tail(s)) ELSE s

RECURSIVE from_bytes(_, _)
from_bytes(value, rawdata) ==
    IF rawdata = <<>> THEN value
    ELSE from_bytes(value * 256 + Head(rawdata), Tail(rawdata))

(* Whether the unsigned integer held in rawdata is below 2^31. *)
InModelRange(rawdata) ==
    LET digits == lstrip(rawdata)
    IN  Len(digits) < 4 \/ (Len(digits) = 4 /\ digits[1] < 128)

Slice(s, n) == SubSeq(s, 1, IF n < Len(s) THEN n ELSE Len(s))

Drop(s, n) == SubSeq(s, (IF n < Len(s) THEN n ELSE Len(s)) + 1, Len(s))

PackL(v) ==
    IF v = None \/ v[1] < 0 \/ v[1] \div 65536 >= 65536
    THEN [status |-> "struct.error", data |-> <<>>]
    ELSE [status |-> "ok", data |-> pack(v[1], 4)]

(* ---------------------------------------------------------------------- *)
(* Extended-field codec                                                    *)
(* ---------------------------------------------------------------------- *)

(* Variant of readExtendedFieldValue: the two-byte form adds 256, not 269. *)
readExtendedFieldValueWrongBase(value, rawdata) ==
    IF value >= 0 /\ value < 13
    THEN [status |-> "ok", value |-> value, rawdata |-> rawdata]
    ELSE IF value = 13
    THEN IF rawdata = <<>>
         THEN [status |-> "IndexError", value |-> 0, rawdata |-> rawdata]
         ELSE [status |-> "ok", value |-> rawdata[1] + 13, rawdata |-> Drop(rawdata, 1)]
    ELSE IF value = 14
    THEN IF Len(rawdata) < 2
         THEN [status |-> "struct.error", value |-> 0, rawdata |-> rawdata]
         ELSE [status |-> "ok", value |-> rawdata[1] * 256 + rawdata[2] + 256,
               rawdata |-> Drop(rawdata, 2)]
    ELSE [status |-> "ValueError", value |-> 0, rawdata |-> rawdata]

readExtendedFieldValue(value, rawdata) ==
    IF value >= 0 /\ value < 13
    THEN [status |-> "ok", value |-> value, rawdata |-> rawdata]
    ELSE IF value = 13
    THEN IF rawdata = <<>>
         THEN [status |-> "IndexError", value |-> 0, rawdata |-> rawdata]
         ELSE [status |-> "ok", value |-> rawdata[1] + 13, rawdata |-> Drop(rawdata, 1)]
    ELSE IF value = 14
    THEN IF Len(rawdata) < 2
         THEN [status |-> "struct.error", value |-> 0, rawdata |-> rawdata]
         ELSE [status |-> "ok", value |-> rawdata[1] * 256 + rawdata[2] + 269,
               rawdata |-> Drop(rawdata, 2)]
    ELSE [status |-> "ValueError", value |-> 0, rawdata |-> rawdata]

writeExtendedFieldValue(value) ==
    IF value >= 0 /\ value < 13
    THEN [status |-> "ok", value |-> value, ext |-> <<>>]
    ELSE IF value >= 13 /\ value < 269
    THEN [status |-> "ok", value |-> 13, ext |-> pack(value - 13, 1)]
    ELSE IF value >= 269 /\ value < 65804
    THEN [status |-> "ok", value |-> 14, ext |-> pack(value - 269, 2)]
    ELSE [status |-> "ValueError", value |-> 0, ext |-> <<>>]

(* ---------------------------------------------------------------------- *)
(* Option value codecs                                                     *)
(* ---------------------------------------------------------------------- *)

OpaqueOption(number, value) == [number |-> number, kind |-> "Opaque", value |-> value]

StringOption(number, value) == [number |-> number, kind |-> "String", value |-> value]

UintOption(number, value) == [number |-> number, kind |-> "Uint", value |-> value]

BlockOption(number, value) == [number |-> number, kind |-> "Block", value |-> value]

OpaqueOption_encode(o) == [status |-> "ok", data |-> o.value]

OpaqueOption_decode(number, rawdata) == OpaqueOption(number, rawdata)

OpaqueOption_length(o) == Len(o.value)

StringOption_encode(o) == [status |-> "ok", data |-> o.value]

StringOption_decode(number, rawdata) == StringOption(number, rawdata)

StringOption_length(o) == Len(o.value)

UintOption_encode(o) ==
    LET rawdata == PackL(o.value)
    IN  [status |-> rawdata.status, data |-> lstrip(rawdata.data)]

UintOption_decode(number, rawdata) == UintOption(number, <<from_bytes(0, rawdata)>>)

UintOption_length(o) ==
    IF o.value # None /\ o.value[1] > 0
    THEN (bit_length(o.value[1]) - 1) \div 8 + 1
    ELSE 0

BlockOption_encode(o) ==
    LET as_integer == o.value[1] * 16 + o.value[2] * 8 + o.value[3]
        rawdata == PackL(<<as_integer>>)
    IN  [status |-> rawdata.status, data |-> lstrip(rawdata.data)]

BlockOption_decode(number, rawdata) ==
    LET as_integer == from_bytes(0, rawdata)
    IN  BlockOption(number, <<as_integer \div 16,
                              IF (as_integer \div 8) % 2 = 1 THEN 1 ELSE 0,
                              as_integer % 8>>)

BlockOption_length(o) == (bit_length(o.value[1]) + 3) \div 8 + 1

Option_encode(o) ==
    CASE o.kind = "Opaque" -> OpaqueOption_encode(o)
      [] o.kind = "String" -> StringOption_encode(o)
      [] o.kind = "Uint" -> UintOption_encode(o)
      [] o.kind = "Block" -> BlockOption_encode(o)

Option_length(o) ==
    CASE o.kind = "Opaque" -> OpaqueOption_length(o)
      [] o.kind = "String" -> StringOption_length(o)
      [] o.kind = "Uint" -> UintOption_length(o)
      [] o.kind = "Block" -> BlockOption_length(o)

(* ---------------------------------------------------------------------- *)
(* Option registry                                                         *)
(* ---------------------------------------------------------------------- *)

option_formats(number) ==
    IF number \in {3, 8, 11, 15, 20, 35, 39} THEN "String"
    ELSE IF number \in {6, 7, 12, 14, 17, 28, 60} THEN "Uint"
    ELSE IF number \in {23, 27} THEN "Block"
    ELSE "Opaque"

Option_decode(number, rawdata) ==
    CASE option_formats(number) = "Opaque" -> OpaqueOption_decode(number, rawdata)
      [] option_formats(number) = "String" -> StringOption_decode(number, rawdata)
      [] option_formats(number) = "Uint" -> UintOption_decode(number, rawdata)
      [] option_formats(number) = "Block" -> BlockOption_decode(number, rawdata)

(* ---------------------------------------------------------------------- *)
(* Option numbers used by the accessors                                    *)
(* ---------------------------------------------------------------------- *)

ETAG == 4

OBSERVE == 6

LOCATION_PATH == 8

URI_PATH == 11

CONTENT_FORMAT == 12

URI_QUERY == 15

ACCEPT == 17

BLOCK2 == 23

BLOCK1 == 27

(* ---------------------------------------------------------------------- *)
(* The Options container                                                   *)
(* ---------------------------------------------------------------------- *)

Options_init == <<>>

HasKey(opts, number) == \E i \in 1..Len(opts) : opts[i].key = number

IndexOf(opts, number) == CHOOSE i \in 1..Len(opts) : opts[i].key = number

addOption(opts, option) ==
    IF HasKey(opts, option.number)
    THEN [opts EXCEPT ![IndexOf(opts, option.number)].bucket = Append(@, option)]
    ELSE Append(opts, [key |-> option.number, bucket |-> <<option>>])

(* Variant of deleteOption: the bucket is emptied, its key kept. *)
deleteOptionClear(opts, number) ==
    [i \in 1..Len(opts) |->
        IF opts[i].key = number THEN [opts[i] EXCEPT !.bucket = <<>>] ELSE opts[i]]

deleteOption(opts, number) ==
    LET live(e) == e.key # number
    IN  SelectSeq(opts, live)

getOption(opts, number) ==
    IF HasKey(opts, number)
    THEN [found |-> TRUE, bucket |-> opts[IndexOf(opts, number)].bucket]
    ELSE [found |-> FALSE, bucket |-> <<>>]

RECURSIVE addAll(_, _)
addAll(opts, list) ==
    IF list = <<>> THEN opts ELSE addAll(addOption(opts, Head(list)), Tail(list))

RECURSIVE chain(_)
chain(buckets) ==
    IF buckets = <<>> THEN <<>> ELSE Head(buckets) \o chain(Tail(buckets))

values(opts) == [i \in 1..Len(opts) |-> opts[i].bucket]

RECURSIVE insert(_, _)
insert(sortedBuckets, b) ==
    IF sortedBuckets = <<>> THEN <<b>>
    ELSE LET last == sortedBuckets[Len(sortedBuckets)]
         IN  IF last[1].number <= b[1].number
             THEN Append(sortedBuckets, b)
             ELSE Append(insert(SubSeq(sortedBuckets, 1, Len(sortedBuckets) - 1), b), last)

RECURSIVE sorted(_)
sorted(buckets) ==
    IF buckets = <<>> THEN <<>>
    ELSE insert(sorted(SubSeq(buckets, 1, Len(buckets) - 1)), buckets[Len(buckets)])

(* Variant of optionList: the buckets are chained in the dict's own order. *)
optionListUnsorted(opts) ==
    IF \E i \in 1..Len(opts) : opts[i].bucket = <<>>
    THEN [status |-> "IndexError", list |-> <<>>]
    ELSE [status |-> "ok", list |-> chain(values(opts))]

optionList(opts) ==
    IF \E i \in 1..Len(opts) : opts[i].bucket = <<>>
    THEN [status |-> "IndexError", list |-> <<>>]
    ELSE [status |-> "ok", list |-> chain(sorted(values(opts)))]

RECURSIVE encode_loop(_, _)
encode_loop(option_list, current_opt_num) ==
    IF option_list = <<>> THEN [status |-> "ok", data |-> <<>>]
    ELSE LET option == Head(option_list)
             delta == writeExtendedFieldValue(option.number - current_opt_num)
             length == writeExtendedFieldValue(Option_length(option))
             value == Option_encode(option)
             rest == encode_loop(Tail(option_list), option.number)
         IN  IF delta.status # "ok" THEN [status |-> delta.status, data |-> <<>>]
             ELSE IF length.status # "ok" THEN [status |-> length.status, data |-> <<>>]
             ELSE IF value.status # "ok" THEN [status |-> value.status, data |-> <<>>]
             ELSE IF rest.status # "ok" THEN rest
             ELSE [status |-> "ok",
                   data |-> <<(delta.value % 16) * 16 + (length.value % 16)>>
                            \o delta.ext \o length.ext \o value.data \o rest.data]

encode(opts) ==
    LET option_list == optionList(opts)
    IN  IF option_list.status # "ok" THEN [status |-> option_list.status, data |-> <<>>]
        ELSE encode_loop(option_list.list, 0)

deltas(option_list) ==
    [i \in 1..Len(option_list) |->
        option_list[i].number - (IF i = 1 THEN 0 ELSE option_list[i - 1].number)]

(* Variant of decode_loop: the payload returned starts at the marker byte. *)
RECURSIVE decode_loopKeepMarker(_, _, _)
decode_loopKeepMarker(opts, option_number, rawdata) ==
    IF rawdata = <<>> THEN [status |-> "ok", options |-> opts, payload |-> <<>>]
    ELSE IF rawdata[1] = 255
    THEN [status |-> "ok", options |-> opts, payload |-> rawdata]
    ELSE LET dllen == rawdata[1]
             delta == readExtendedFieldValue(dllen \div 16, Drop(rawdata, 1))
             length == readExtendedFieldValue(dllen % 16, delta.rawdata)
             number == option_number + delta.value
             option == Option_decode(number, Slice(length.rawdata, length.value))
         IN  IF delta.status # "ok"
             THEN [status |-> delta.status, options |-> opts, payload |-> <<>>]
             ELSE IF length.status # "ok"
             THEN [status |-> length.status, options |-> opts, payload |-> <<>>]
             ELSE IF /\ option_formats(number) \in {"Uint", "Block"}
                     /\ ~InModelRange(Slice(length.rawdata, length.value))
             THEN [status |-> "beyond", options |-> opts, payload |-> <<>>]
             ELSE decode_loopKeepMarker(addOption(opts, option), number,
                                        Drop(length.rawdata, length.value))

RECURSIVE decode_loop(_, _, _)
decode_loop(opts, option_number, rawdata) ==
    IF rawdata = <<>> THEN [status |-> "ok", options |-> opts, payload |-> <<>>]
    ELSE IF rawdata[1] = 255
    THEN [status |-> "ok", options |-> opts, payload |-> Drop(rawdata, 1)]
    ELSE LET dllen == rawdata[1]
             delta == readExtendedFieldValue(dllen \div 16, Drop(rawdata, 1))
             length == readExtendedFieldValue(dllen % 16, delta.rawdata)
             number == option_number + delta.value
             option == Option_decode(number, Slice(length.rawdata, length.value))
         IN  IF delta.status # "ok"
             THEN [status |-> delta.status, options |-> opts, payload |-> <<>>]
             ELSE IF length.status # "ok"
             THEN [status |-> length.status, options |-> opts, payload |-> <<>>]
             ELSE IF /\ option_formats(number) \in {"Uint", "Block"}
                     /\ ~InModelRange(Slice(length.rawdata, length.value))
             THEN [status |-> "beyond", options |-> opts, payload |-> <<>>]
             ELSE decode_loop(addOption(opts, option), number,
                              Drop(length.rawdata, length.value))

decode(opts, rawdata) == decode_loop(opts, 0, rawdata)

(* ---------------------------------------------------------------------- *)
(* Convenience accessors: each setter maps the container to the outcome of *)
(* the call, [status, options]; each getter reads the container            *)
(* ---------------------------------------------------------------------- *)

isinstance_basestring(segments) == segments.type = "str"

Segments(segments) ==
    IF segments.type = "str"
    THEN [i \in 1..Len(segments.val) |-> <<segments.val[i]>>]
    ELSE segments.val

StringOptions(number, segs) == [i \in 1..Len(segs) |-> StringOption(number, segs[i])]

OpaqueOptions(number, tags) == [i \in 1..Len(tags) |-> OpaqueOption(number, tags[i])]

Values(bucket) == [i \in 1..Len(bucket) |-> bucket[i].value]

(* Variant of _setUriPath: no isinstance test, a str is iterated by character. *)
_setUriPathNoCheck(opts, segments) ==
    [status |-> "ok",
     options |-> addAll(deleteOption(opts, URI_PATH),
                        StringOptions(URI_PATH, Segments(segments)))]

_setUriPath(opts, segments) ==
    IF isinstance_basestring(segments)
    THEN [status |-> "ValueError", options |-> opts]
    ELSE [status |-> "ok",
          options |-> addAll(deleteOption(opts, URI_PATH),
                             StringOptions(URI_PATH, Segments(segments)))]

_getUriPath(opts) == Values(getOption(opts, URI_PATH).bucket)

_setUriQuery(opts, segments) ==
    IF isinstance_basestring(segments)
    THEN [status |-> "ValueError", options |-> opts]
    ELSE [status |-> "ok",
          options |-> addAll(deleteOption(opts, URI_QUERY),
                             StringOptions(URI_QUERY, Segments(segments)))]

_getUriQuery(opts) == Values(getOption(opts, URI_QUERY).bucket)

_setBlock2(opts, block_tuple) ==
    [status |-> "ok",
     options |-> addOption(deleteOption(opts, BLOCK2), BlockOption(BLOCK2, block_tuple))]

_getBlock2(opts) ==
    LET block2 == getOption(opts, BLOCK2)
    IN  IF block2.found THEN block2.bucket[1].value ELSE None

_setBlock1(opts, block_tuple) ==
    [status |-> "ok",
     options |-> addOption(deleteOption(opts, BLOCK1), BlockOption(BLOCK1, block_tuple))]

_getBlock1(opts) ==
    LET block1 == getOption(opts, BLOCK1)
    IN  IF block1.found THEN block1.bucket[1].value ELSE None

_setContentFormat(opts, content_format) ==
    [status |-> "ok",
     options |-> addOption(deleteOption(opts, CONTENT_FORMAT),
                           UintOption(CONTENT_FORMAT, content_format))]

_getContentFormat(opts) ==
    LET content_format == getOption(opts, CONTENT_FORMAT)
    IN  IF content_format.found THEN content_format.bucket[1].value ELSE None

(* Variant of _setETag: the bucket is not deleted before the tag is added. *)
_setETagKeep(opts, etag) ==
    [status |-> "ok",
     options |-> IF etag # None
                 THEN addOption(opts, OpaqueOption(ETAG, etag))
                 ELSE opts]

_setETag(opts, etag) ==
    [status |-> "ok",
     options |-> IF etag # None
                 THEN addOption(deleteOption(opts, ETAG), OpaqueOption(ETAG, etag))
                 ELSE deleteOption(opts, ETAG)]

_getETag(opts) ==
    LET etag == getOption(opts, ETAG)
    IN  IF etag.found THEN etag.bucket[1].value ELSE None

_setETags(opts, etags) ==
    [status |-> "ok",
     options |-> addAll(deleteOption(opts, ETAG), OpaqueOptions(ETAG, etags))]

_getETags(opts) == Values(getOption(opts, ETAG).bucket)

_setObserve(opts, observe) ==
    [status |-> "ok",
     options |-> IF observe # None
                 THEN addOption(deleteOption(opts, OBSERVE), UintOption(OBSERVE, observe))
                 ELSE deleteOption(opts, OBSERVE)]

_getObserve(opts) ==
    LET observe == getOption(opts, OBSERVE)
    IN  IF observe.found THEN observe.bucket[1].value ELSE None

_setAccept(opts, accept) ==
    [status |-> "ok",
     options |-> IF accept # None
                 THEN addOption(deleteOption(opts, ACCEPT), UintOption(ACCEPT, accept))
                 ELSE deleteOption(opts, ACCEPT)]

_getAccept(opts) ==
    LET accept == getOption(opts, ACCEPT)
    IN  IF accept.found THEN accept.bucket[1].value ELSE None

_setLocationPath(opts, segments) ==
    IF isinstance_basestring(segments)
    THEN [status |-> "ValueError", options |-> opts]
    ELSE [status |-> "ok",
          options |-> addAll(deleteOption(opts, LOCATION_PATH),
                             StringOptions(LOCATION_PATH, Segments(segments)))]

_getLocationPath(opts) == Values(getOption(opts, LOCATION_PATH).bucket)

(* ---------------------------------------------------------------------- *)
(* Inputs of the calls                                                     *)
(* ---------------------------------------------------------------------- *)

MaxOptions == 3

Count(opts) == Len(chain(values(opts)))

AddPool ==
    { OpaqueOption(ETAG, <<255>>),
      OpaqueOption(9999, <<7>>) }

NumberPool == { ETAG, 5 }

PathArgs ==
    { [type |-> "str", val |-> <<97, 47, 98>>],
      [type |-> "list", val |-> <<>>],
      [type |-> "list", val |-> << <<97>>, <<98>> >>] }

QueryArgs ==
    { [type |-> "str", val |-> <<97, 47, 98>>],
      [type |-> "list", val |-> << <<97>>, <<98>> >>] }

BlockArgs == { <<0, 0, 0>>, <<5, 1, 6>> }

Block1Args == { <<5, 1, 6>> }

ContentFormatArgs == { None, <<40>> }

ObserveArgs == { None, <<0>> }

AcceptArgs == { None, <<65536>> }

ETagArgs == { None, <<1>> }

ETagsArgs == { <<>>, << <<1>>, <<255>> >> }

RawInputs ==
    { <<>>,
      <<193, 40, 255, 104, 101, 108, 108, 111>>,
      <<255, 255, 1>>,
      <<65, 255>>,
      <<209, 255, 5>>,
      <<2, 65>>,
      <<208>>,
      <<224, 1>>,
      <<240>>,
      <<65, 1, 13>> }

(* ---------------------------------------------------------------------- *)
(* The calls on one Options object, and the outcome of the last call       *)
(* ---------------------------------------------------------------------- *)

(* The record of a call: its name, the option number it is about, its      *)
(* argument, "ok" or the exception raised, the bytes returned, the Options *)
(* object a decode into a fresh object filled, and the number of options   *)
(* stored under the number before the call.                                *)
Outcome(op, number, arg, status, data, fresh) ==
    [op |-> op, number |-> number, arg |-> arg, status |-> status, data |-> data,
     fresh |-> fresh, prior |-> Len(getOption(options, number).bucket)]

Add(option) ==
    LET r == [status |-> "ok", options |-> addOption(options, option)]
    IN  /\ Count(r.options) <= MaxOptions
        /\ options' = r.options
        /\ ret' = Outcome("addOption", option.number, <<option>>, r.status, <<>>, <<>>)

Remove(number) ==
    LET r == [status |-> "ok", options |-> deleteOption(options, number)]
    IN  /\ options' = r.options
        /\ ret' = Outcome("deleteOption", number, <<>>, r.status, <<>>, <<>>)

SetUriPath(segments) ==
    LET r == _setUriPath(options, segments)
    IN  /\ Count(r.options) <= MaxOptions
        /\ options' = r.options
        /\ ret' = Outcome("uri_path", URI_PATH, segments, r.status, <<>>, <<>>)

SetUriQuery(segments) ==
    LET r == _setUriQuery(options, segments)
    IN  /\ Count(r.options) <= MaxOptions
        /\ options' = r.options
        /\ ret' = Outcome("uri_query", URI_QUERY, segments, r.status, <<>>, <<>>)

SetLocationPath(segments) ==
    LET r == _setLocationPath(options, segments)
    IN  /\ Count(r.options) <= MaxOptions
        /\ options' = r.options
        /\ ret' = Outcome("location_path", LOCATION_PATH, segments, r.status, <<>>, <<>>)

SetBlock2(block_tuple) ==
    LET r == _setBlock2(options, block_tuple)
    IN  /\ Count(r.options) <= MaxOptions
        /\ options' = r.options
        /\ ret' = Outcome("block2", BLOCK2, block_tuple, r.status, <<>>, <<>>)

SetBlock1(block_tuple) ==
    LET r == _setBlock1(options, block_tuple)
    IN  /\ Count(r.options) <= MaxOptions
        /\ options' = r.options
        /\ ret' = Outcome("block1", BLOCK1, block_tuple, r.status, <<>>, <<>>)

SetContentFormat(content_format) ==
    LET r == _setContentFormat(options, content_format)
    IN  /\ Count(r.options) <= MaxOptions
        /\ options' = r.options
        /\ ret' = Outcome("content_format", CONTENT_FORMAT, content_format, r.status,
                          <<>>, <<>>)

SetETag(etag) ==
    LET r == _setETag(options, etag)
    IN  /\ Count(r.options) <= MaxOptions
        /\ options' = r.options
        /\ ret' = Outcome("etag", ETAG, etag, r.status, <<>>, <<>>)

SetETags(etags) ==
    LET r == _setETags(options, etags)
    IN  /\ Count(r.options) <= MaxOptions
        /\ options' = r.options
        /\ ret' = Outcome("etags", ETAG, etags, r.status, <<>>, <<>>)

SetObserve(observe) ==
    LET r == _setObserve(options, observe)
    IN  /\ Count(r.options) <= MaxOptions
        /\ options' = r.options
        /\ ret' = Outcome("observe", OBSERVE, observe, r.status, <<>>, <<>>)

SetAccept(accept) ==
    LET r == _setAccept(options, accept)
    IN  /\ Count(r.options) <= MaxOptions
        /\ options' = r.options
        /\ ret' = Outcome("accept", ACCEPT, accept, r.status, <<>>, <<>>)

Encode ==
    LET r == encode(options)
    IN  /\ options' = options
        /\ ret' = Outcome("encode", 0, <<>>, r.status, r.data, <<>>)

Decode(rawdata) ==
    LET r == decode(options, rawdata)
    IN  /\ r.status # "beyond"
        /\ Count(r.options) <= MaxOptions
        /\ options' = r.options
        /\ ret' = Outcome("decode", 0, rawdata, r.status, r.payload, <<>>)

DecodeEncoded ==
    /\ ret.op = "encode"
    /\ ret.status = "ok"
    /\ LET r == decode(Options_init, ret.data)
       IN  /\ r.status # "beyond"
           /\ options' = options
           /\ ret' = Outcome("decode_fresh", 0, ret.data, r.status, r.payload, r.options)

Init ==
    /\ options = Options_init
    /\ ret = [op |-> "init", number |-> 0, arg |-> <<>>, status |-> "ok", data |-> <<>>,
              fresh |-> <<>>, prior |-> 0]

Next ==
    \/ \E option \in AddPool : Add(option)
    \/ \E number \in NumberPool : Remove(number)
    \/ \E segments \in PathArgs : SetUriPath(segments)
    \/ \E segments \in QueryArgs : SetUriQuery(segments)
    \/ \E segments \in QueryArgs : SetLocationPath(segments)
    \/ \E block_tuple \in BlockArgs : SetBlock2(block_tuple)
    \/ \E block_tuple \in Block1Args : SetBlock1(block_tuple)
    \/ \E content_format \in ContentFormatArgs : SetContentFormat(content_format)
    \/ \E etag \in ETagArgs : SetETag(etag)
    \/ \E etags \in ETagsArgs : SetETags(etags)
    \/ \E observe \in ObserveArgs : SetObserve(observe)
    \/ \E accept \in AcceptArgs : SetAccept(accept)
    \/ Encode
    \/ \E rawdata \in RawInputs : Decode(rawdata)
    \/ DecodeEncoded

Spec == Init /\ [][Next]_vars

(* ---------------------------------------------------------------------- *)
(* The extended-field codec on its own: every value is written and read    *)
(* back in front of some following bytes                                   *)
(* ---------------------------------------------------------------------- *)

MaxExtended == 65803

ExtValues == (0 - 1)..(MaxExtended + 1)

ExtTails == { <<>>, <<255, 13>> }

InitExt ==
    /\ options = Options_init
    /\ ret \in { [op |-> "value", v |-> v, tail |-> tail, status |-> "ok", nibble |-> 0,
                  ext |-> <<>>, value |-> 0, rest |-> <<>>] :
                 v \in ExtValues, tail \in ExtTails }

WriteThenRead ==
    /\ ret.op = "value"
    /\ LET w == writeExtendedFieldValue(ret.v)
           r == readExtendedFieldValue(w.value, w.ext \o ret.tail)
       IN  ret' = IF w.status # "ok"
                  THEN [ret EXCEPT !.op = "extended", !.status = w.status]
                  ELSE [ret EXCEPT !.op = "extended", !.status = r.status,
                                   !.nibble = w.value, !.ext = w.ext,
                                   !.value = r.value, !.rest = r.rawdata]
    /\ UNCHANGED options

NextExt == WriteThenRead

SpecExt == InitExt /\ [][NextExt]_vars

(* ---------------------------------------------------------------------- *)
(* The wire layout, by byte positions: the reference the decode claims are *)
(* stated against                                                          *)
(* ---------------------------------------------------------------------- *)

ExtLen(nibble) == IF nibble = 13 THEN 1 ELSE IF nibble = 14 THEN 2 ELSE 0

ByteAt(raw, i) == IF i <= Len(raw) THEN raw[i] ELSE 0

FieldValue(raw, nibble, pos) ==
    IF nibble = 13 THEN ByteAt(raw, pos) + 13
    ELSE IF nibble = 14 THEN ByteAt(raw, pos) * 256 + ByteAt(raw, pos + 1) + 269
    ELSE nibble

DeltaPos(raw, p) == p + 1

LengthPos(raw, p) == DeltaPos(raw, p) + ExtLen(raw[p] \div 16)

ValuePos(raw, p) == LengthPos(raw, p) + ExtLen(raw[p] % 16)

EntryDelta(raw, p) == FieldValue(raw, raw[p] \div 16, DeltaPos(raw, p))

EntryLength(raw, p) == FieldValue(raw, raw[p] % 16, LengthPos(raw, p))

NextEntry(raw, p) == ValuePos(raw, p) + EntryLength(raw, p)

EntryLaidOut(raw, p) ==
    /\ raw[p] \div 16 # 15
    /\ raw[p] % 16 # 15
    /\ ValuePos(raw, p) - 1 <= Len(raw)
    /\ NextEntry(raw, p) - 1 <= Len(raw)

RECURSIVE MalformedFrom(_, _)
MalformedFrom(raw, p) ==
    IF p > Len(raw) \/ raw[p] = 255 THEN FALSE
    ELSE IF ~EntryLaidOut(raw, p) THEN TRUE
    ELSE MalformedFrom(raw, NextEntry(raw, p))

RECURSIVE MarkerFrom(_, _)
MarkerFrom(raw, p) ==
    IF p > Len(raw) THEN 0
    ELSE IF raw[p] = 255 THEN p
    ELSE MarkerFrom(raw, NextEntry(raw, p))

RECURSIVE EntriesFrom(_, _, _)
EntriesFrom(raw, p, previous) ==
    IF p > Len(raw) \/ raw[p] = 255 THEN <<>>
    ELSE LET number == previous + EntryDelta(raw, p)
             last == IF NextEntry(raw, p) - 1 < Len(raw)
                     THEN NextEntry(raw, p) - 1 ELSE Len(raw)
         IN  <<Option_decode(number, SubSeq(raw, ValuePos(raw, p), last))>>
             \o EntriesFrom(raw, NextEntry(raw, p), number)

Bucket(opts, number) == getOption(opts, number).bucket

Keys(opts) == { opts[i].key : i \in 1..Len(opts) }

AllOptions(opts) == chain(values(opts))

(* ---------------------------------------------------------------------- *)
(* The claims                                                              *)
(* ---------------------------------------------------------------------- *)

(* C1: decoding the bytes encode() produced for the Option Set into a      *)
(* fresh Option Set succeeds, leaves an empty payload, and yields the same *)
(* option numbers with the same ordered options (number, kind and value)   *)
(* under each number.                                                      *)
C1_DecodeEncodeRoundTrip ==
    ret.op = "decode_fresh" =>
        /\ ret.status = "ok"
        /\ ret.data = <<>>
        /\ Keys(ret.fresh) = Keys(options)
        /\ \A k \in Keys(options) : Bucket(ret.fresh, k) = Bucket(options, k)

(* C2: a decode() that returns normally returns the bytes after the first  *)
(* 0xFF found where a header byte is expected (nothing when the input ends *)
(* without one), and has added exactly the entries laid out before that    *)
(* point, in order; 0xFF bytes inside extensions or values are skipped     *)
(* with the entry that holds them.                                         *)
C2_DecodeStopsAtMarker ==
    [][ (ret'.op = "decode" /\ ret'.status = "ok") =>
            LET raw == ret'.arg
                m == MarkerFrom(raw, 1)
            IN  /\ ret'.data = IF m = 0 THEN <<>> ELSE SubSeq(raw, m + 1, Len(raw))
                /\ options' = addAll(options, EntriesFrom(raw, 1, 0)) ]_vars

C2_Witness ==
    /\ ret.op = "decode"
    /\ ret.status = "ok"
    /\ ret.arg = <<193, 40, 255, 104, 101, 108, 108, 111>>
    /\ ret.data = <<104, 101, 108, 108, 111>>
    /\ Bucket(options, CONTENT_FORMAT) = <<UintOption(CONTENT_FORMAT, <<40>>)>>

(* C3: for every v in 0..65803, reading back what writeExtendedFieldValue  *)
(* wrote for v gives v, consumes 0, 1 or 2 extension bytes according to    *)
(* the range of v, and leaves the bytes that follow as they were.          *)
C3_ExtendedRoundTrip ==
    (ret.op = "extended" /\ ret.v >= 0 /\ ret.v <= MaxExtended) =>
        /\ ret.status = "ok"
        /\ ret.value = ret.v
        /\ ret.rest = ret.tail
        /\ Len(ret.ext) = IF ret.v <= 12 THEN 0 ELSE IF ret.v <= 268 THEN 1 ELSE 2

C3_Witness ==
    /\ ret.op = "extended"
    /\ ret.v = MaxExtended
    /\ ret.nibble = 14
    /\ ret.value = MaxExtended
    /\ ret.tail # <<>>
    /\ ret.rest = ret.tail

(* C4: decode() raises whenever an entry before the payload marker cannot  *)
(* be laid out as header, extensions and value within the input: a field   *)
(* nibble of 15, a missing extension byte, or a declared length longer     *)
(* than the bytes that remain.                                             *)
C4_MalformedInputRaises ==
    (ret.op = "decode" /\ MalformedFrom(ret.arg, 1)) => ret.status # "ok"

(* C5: after a single-valued unsigned accessor is set to None there is no  *)
(* bucket for its number, its getter returns None, and encode() succeeds   *)
(* without an entry for the number.                                        *)
C5_NoneRemovesBucket ==
    (ret.op \in {"content_format", "observe", "accept"} /\ ret.arg = None) =>
        /\ ~getOption(options, ret.number).found
        /\ (ret.op = "content_format" => _getContentFormat(options) = None)
        /\ (ret.op = "observe" => _getObserve(options) = None)
        /\ (ret.op = "accept" => _getAccept(options) = None)
        /\ encode(options).status = "ok"
        /\ \A i \in 1..Len(optionList(options).list) :
              optionList(options).list[i].number # ret.number

(* C6: optionList() yields every stored option exactly once, the numbers   *)
(* never decreasing along it and each number's options in the order of     *)
(* their bucket; so no delta computed by encode() is negative.             *)
C6_IterateAscending ==
    LET l == optionList(options)
    IN  /\ l.status = "ok"
        /\ Len(l.list) = Count(options)
        /\ \A i, j \in 1..Len(l.list) : i < j => l.list[i].number <= l.list[j].number
        /\ \A k \in Keys(options) :
              LET numbered(o) == o.number = k
              IN  SelectSeq(l.list, numbered) = Bucket(options, k)
        /\ \A i \in 1..Len(l.list) : deltas(l.list)[i] >= 0

C6_Witness ==
    /\ \E i, j \in 1..Len(options) : i < j /\ options[i].key > options[j].key
    /\ \E i \in 1..Len(options) : Len(options[i].bucket) >= 2
    /\ ret.op = "encode"
    /\ ret.status = "ok"

(* C7: after the single-value ETag setter the ETag bucket holds exactly    *)
(* the tag written (no bucket when it was None), whatever it held before,  *)
(* and both getters return it; after the multi-value setter it holds       *)
(* exactly the tags written, in order.                                     *)
C7_ETagLastWriteWins ==
    /\ (ret.op = "etag" /\ ret.arg # None) =>
          /\ Bucket(options, ETAG) = <<OpaqueOption(ETAG, ret.arg)>>
          /\ _getETags(options) = <<ret.arg>>
          /\ _getETag(options) = ret.arg
    /\ (ret.op = "etag" /\ ret.arg = None) =>
          /\ ~getOption(options, ETAG).found
          /\ _getETags(options) = <<>>
    /\ ret.op = "etags" =>
          /\ _getETags(options) = ret.arg
          /\ Bucket(options, ETAG) = OpaqueOptions(ETAG, ret.arg)
          /\ getOption(options, ETAG).found = (ret.arg # <<>>)

C7_Witness ==
    /\ ret.op = "etag"
    /\ ret.arg # None
    /\ ret.prior = 2
    /\ Len(Bucket(options, ETAG)) = 1
    /\ _getETags(options) = <<ret.arg>>

(* C8: the Uri-Path, Uri-Query and Location-Path setters raise ValueError  *)
(* when given a str instead of a list or tuple of segments.                *)
C8_ScalarPathRejected ==
    (ret.op \in {"uri_path", "uri_query", "location_path"} /\ ret.arg.type = "str") =>
        ret.status = "ValueError"

C8_Witness ==
    /\ ret.op = "uri_path"
    /\ ret.arg = [type |-> "str", val |-> <<97, 47, 98>>]
    /\ ret.status = "ValueError"
    /\ ret.prior = 2
    /\ _getUriPath(options) = << <<97>>, <<98>> >>

(* C9: the length of every Block option in the set equals the number of    *)
(* bytes its encode() produces, the minimal big-endian byte count of the   *)
(* packed integer (0 when it is 0).                                        *)
C9_BlockLengthMatchesEncoding ==
    \A i \in 1..Len(AllOptions(options)) :
        LET o == AllOptions(options)[i]
        IN  o.kind = "Block" =>
               /\ BlockOption_encode(o).status = "ok"
               /\ Option_length(o) = Len(BlockOption_encode(o).data)

(* C10: every bucket of the Option Set is non-empty and holds only options *)
(* whose number is the bucket's key, each key occurring once; so the sort  *)
(* key of optionList() is defined and equals the bucket's key.             *)
C10_BucketsNonEmptyAndKeyed ==
    /\ \A i \in 1..Len(options) :
          /\ options[i].bucket # <<>>
          /\ \A j \in 1..Len(options[i].bucket) : options[i].bucket[j].number = options[i].key
    /\ \A i, j \in 1..Len(options) : options[i].key = options[j].key => i = j
    /\ optionList(options).status = "ok"

C10_Witness ==
    /\ ret.op = "etags"
    /\ ret.arg = <<>>
    /\ ret.prior = 2
    /\ options # <<>>
    /\ ~getOption(options, ETAG).found
====
